---- MODULE Spec2Model ----
(***************************************************************************)
(* sphinxcontrib.autophpdoc: the php:auto* directives, which render the    *)
(* entities of a phpDocumentor structure.xml into reStructuredText lines.  *)
(*                                                                         *)
(* Python strings are sequences of one-character strings, so that the      *)
(* regular-expression substitutions, the escaping and the path conversions *)
(* are computed character by character.  Python's None is the value None.  *)
(***************************************************************************)
EXTENDS Integers, Sequences, FiniteSets, TLC

VARIABLES
    text,             \* SpecTrim: [x, calls, prev, out], a string and trim applied to it
    ref,              \* SpecXref: [link, index, markup, called], an identifier and its xref
    config,           \* self.env.config: the autophpdoc_* values of conf.py
    seen_namespaces,  \* the module-level set seen_namespaces
    seen_before,      \* seen_namespaces when the last invocation started
    called_before,    \* namespaces append_ns had been called for before the last invocation
    handed,           \* namespaces whose un-marked declaration reached nested_parse_with_titles
    directive,        \* the last invocation: [name, arguments, options, config]
    content,          \* the StringList of the last invocation
    children,         \* what the last invocation handed to the parser (parent.children)
    outcome,          \* how the last invocation ended
    parsed,           \* etree.parse was called in the last invocation
    visited,          \* the file paths rendered by the last invocation, in rendering order
    par               \* SpecPar: two invocations of one build running in parallel

vars == <<text, ref, config, seen_namespaces, seen_before, called_before, handed,
          directive, content, children, outcome, parsed, visited, par>>

(***************************************************************************)
(* Strings                                                                 *)
(***************************************************************************)

None == <<"None">>

WS == {" ", "\n", "\t"}

RECURSIVE Concat(_)
Concat(ss) == IF ss = <<>> THEN <<>> ELSE Head(ss) \o Concat(Tail(ss))

StartsWith(s, p) == Len(s) >= Len(p) /\ SubSeq(s, 1, Len(p)) = p

HasChar(s, c) == \E i \in 1..Len(s) : s[i] = c

\* the largest index of a set of indices, 0 when there is none
Last(S) == IF S = {} THEN 0 ELSE CHOOSE i \in S : \A j \in S : i >= j

\* str.strip (): leading and trailing whitespace removed
Strip(s) ==
    LET keep == {i \in 1..Len(s) : s[i] \notin WS}
    IN  IF keep = {} THEN <<>>
        ELSE SubSeq(s, CHOOSE i \in keep : \A j \in keep : i <= j,
                       CHOOSE i \in keep : \A j \in keep : i >= j)

\* str.lstrip ('\\')
RECURSIVE LStripBackslash(_)
LStripBackslash(s) ==
    IF s # <<>> /\ Head(s) = "\\" THEN LStripBackslash(Tail(s)) ELSE s

\* str.splitlines () for the line boundary "\n"
RECURSIVE SplitLines(_)
SplitLines(s) ==
    IF s = <<>> THEN <<>>
    ELSE IF ~HasChar(s, "\n") THEN <<s>>
    ELSE LET i == CHOOSE i \in 1..Len(s) : s[i] = "\n" /\ \A j \in 1..(i - 1) : s[j] # "\n"
         IN  <<SubSeq(s, 1, i - 1)>> \o SplitLines(SubSeq(s, i + 1, Len(s)))

\* ', '.join (args)
RECURSIVE JoinComma(_)
JoinComma(ss) ==
    IF ss = <<>> THEN <<>>
    ELSE IF Len(ss) = 1 THEN ss[1]
    ELSE ss[1] \o <<",", " ">> \o JoinComma(Tail(ss))

(***************************************************************************)
(* The regular expressions and the text helpers                            *)
(***************************************************************************)

TagOpen  == <<"<", "p", ">">>
TagClose == <<"<", "/", "p", ">">>

\* RE_TRIM.sub ('', text): every leftmost non-overlapping <p> or </p> removed, in one pass
RECURSIVE RE_TRIM_sub(_)
RE_TRIM_sub(s) ==
    IF s = <<>> THEN <<>>
    ELSE IF StartsWith(s, TagOpen)  THEN RE_TRIM_sub(SubSeq(s, 4, Len(s)))
    ELSE IF StartsWith(s, TagClose) THEN RE_TRIM_sub(SubSeq(s, 5, Len(s)))
    ELSE <<Head(s)>> \o RE_TRIM_sub(Tail(s))

\* RE_WS.sub (' ', text): every run of whitespace becomes one space
RECURSIVE RE_WS_sub(_)
RE_WS_sub(s) ==
    IF s = <<>> THEN <<>>
    ELSE IF Head(s) \in WS
         THEN IF Len(s) > 1 /\ s[2] \in WS
              THEN RE_WS_sub(Tail(s))
              ELSE <<" ">> \o RE_WS_sub(Tail(s))
    ELSE <<Head(s)>> \o RE_WS_sub(Tail(s))

trim(t) == RE_WS_sub(Strip(RE_TRIM_sub(t)))

\* RE_BRACES.sub ('', text): (\s*\(.*\)) is whitespace, an opening brace and
\* everything up to the last closing brace on the same line
RECURSIVE strip_braces(_)
strip_braces(s) ==
    IF s = <<>> THEN <<>>
    ELSE IF Head(s) \notin WS \cup {"("} THEN <<Head(s)>> \o strip_braces(Tail(s))
    ELSE LET j     == CHOOSE i \in 1..(Len(s) + 1) :
                         /\ i = Len(s) + 1 \/ s[i] \notin WS
                         /\ \A k \in 1..(i - 1) : s[k] \in WS
             eol   == CHOOSE i \in j..(Len(s) + 1) :
                         /\ i = Len(s) + 1 \/ s[i] = "\n"
                         /\ \A k \in j..(i - 1) : s[k] # "\n"
             close == Last({i \in (j + 1)..(eol - 1) : s[i] = ")"})
         IN  IF j <= Len(s) /\ s[j] = "(" /\ close > 0
             THEN strip_braces(SubSeq(s, close + 1, Len(s)))
             ELSE <<Head(s)>> \o strip_braces(Tail(s))

RECURSIVE DoubleBackslash(_)
DoubleBackslash(s) ==
    IF s = <<>> THEN <<>>
    ELSE (IF Head(s) = "\\" THEN <<"\\", "\\">> ELSE <<Head(s)>>) \o DoubleBackslash(Tail(s))

bs(link) == DoubleBackslash(LStripBackslash(link))

(***************************************************************************)
(* Subject.xref                                                            *)
(***************************************************************************)

S_php_class == <<"p", "h", "p", ":", "c", "l", "a", "s", "s">>
S_php_func  == <<"p", "h", "p", ":", "f", "u", "n", "c">>
S_php_meth  == <<"p", "h", "p", ":", "m", "e", "t", "h">>
S_php_attr  == <<"p", "h", "p", ":", "a", "t", "t", "r">>

\* the grave accent U+0060 (the character cannot be written in a string of this notation)
Backtick == "U+0060"

\* ":%s:`%s`" % (what, link)
Role(what, link) == <<":">> \o what \o <<":", Backtick>> \o link \o <<Backtick>>

\* the mutant of xref: the function set is consulted before the class set
xref_FuncFirst(d, link) ==
    IF link = <<>> THEN <<>>
    ELSE IF link \in d.functions  THEN Role(S_php_func,  bs(link))
    ELSE IF link \in d.classes    THEN Role(S_php_class, bs(link))
    ELSE IF link \in d.methods    THEN Role(S_php_meth,  bs(link))
    ELSE IF link \in d.properties THEN Role(S_php_attr,  bs(link))
    ELSE bs(link)

xref(d, link) ==
    IF link = <<>> THEN <<>>
    ELSE IF link \in d.classes    THEN Role(S_php_class, bs(link))
    ELSE IF link \in d.functions  THEN Role(S_php_func,  bs(link))
    ELSE IF link \in d.methods    THEN Role(S_php_meth,  bs(link))
    ELSE IF link \in d.properties THEN Role(S_php_attr,  bs(link))
    ELSE bs(link)

(***************************************************************************)
(* The structure tree.  An element is                                      *)
(*   [tag, attrib, elems, docblock, children]:                             *)
(* attrib maps attribute names to strings, elems maps the names of the     *)
(* text children (name, full_name, value) to their text, docblock is the   *)
(* sequence of docblock children (none or one), each                       *)
(* [attrib, elems, tags], and children are the entity children in          *)
(* document order.  An attribute or element that is absent is absent from  *)
(* the map.                                                                *)
(***************************************************************************)

\* node.get (name)
Attr(node, name) == IF name \in DOMAIN node.attrib THEN node.attrib[name] ELSE None

\* node.xpath (tag): the children with that tag, in document order
xpath(node, tag) == SelectSeq(node.children, LAMBDA c : c.tag = tag)

\* node.xpath ("docblock/tag[@name='...']")
xpath_tags(node, name) ==
    IF node.docblock = <<>> THEN <<>>
    ELSE SelectSeq(node.docblock[1].tags, LAMBDA t : t.attrib.name = name)

\* Subject.xpath_str for a text child of the node
xpath_str_elem(node, name, default) ==
    IF name \in DOMAIN node.elems THEN Strip(node.elems[name]) ELSE default

\* Subject.xpath_str for an attribute of the node
xpath_str_attr(node, name, default) ==
    IF name \in DOMAIN node.attrib THEN Strip(node.attrib[name]) ELSE default

\* Subject.xpath_str for a text child of the node's docblock
xpath_str_docblock(node, name, default) ==
    IF node.docblock # <<>> /\ name \in DOMAIN node.docblock[1].elems
    THEN Strip(node.docblock[1].elems[name])
    ELSE default

Digit == [c \in {"0", "1", "2", "3", "4", "5", "6", "7", "8", "9"} |->
            CASE c = "0" -> 0 [] c = "1" -> 1 [] c = "2" -> 2 [] c = "3" -> 3 [] c = "4" -> 4
              [] c = "5" -> 5 [] c = "6" -> 6 [] c = "7" -> 7 [] c = "8" -> 8 [] c = "9" -> 9]

\* int (s) for a string of decimal digits
RECURSIVE int(_)
int(s) == IF s = <<>> THEN 0 ELSE 10 * int(SubSeq(s, 1, Len(s) - 1)) + Digit[s[Len(s)]]

get_lineno(node) ==
    IF "line" \in DOMAIN node.attrib
    THEN int(node.attrib["line"])
    ELSE IF node.docblock # <<>> /\ "line" \in DOMAIN node.docblock[1].attrib
         THEN int(Strip(node.docblock[1].attrib["line"]))
         ELSE 0

get_description(node)      == xpath_str_docblock(node, "description", <<>>)
get_long_description(node) == xpath_str_docblock(node, "long-description", <<>>)
get_name(node)             == xpath_str_elem(node, "name", <<>>)
get_value(node)            == xpath_str_elem(node, "value", <<>>)
get_namespace(node)        == xpath_str_attr(node, "namespace", <<>>)

\* docblock/tag[@name="var"]/@type: the type of the first var tag that has one
get_type(node) ==
    LET typed == SelectSeq(xpath_tags(node, "var"), LAMBDA t : "type" \in DOMAIN t.attrib)
    IN  IF typed = <<>> THEN <<>> ELSE Strip(typed[1].attrib["type"])

(***************************************************************************)
(* Subject: the emitter.  A subject is [node, indent, file], file being    *)
(* the path of the enclosing file element.  The rendering state st is      *)
(* [content, seen, exc]: the StringList, seen_namespaces, and the          *)
(* exception that is propagating ("" when none), after which nothing is    *)
(* executed.  A line of content is [indent, fmt, args, source]: the text   *)
(* is indent spaces and then fmt % args.                                   *)
(***************************************************************************)

Subject(node, indent, file) == [node |-> node, indent |-> indent, file |-> file]

Indented(subj) == [subj EXCEPT !.indent = @ + 3]

Raise(st, e) == IF st.exc # "" THEN st ELSE [st EXCEPT !.exc = e]

\* e is evaluated, and then Body of its value: one statement after the other
Bind(e, Body(_)) == CHOOSE r \in {Body(v) : v \in {e}} : TRUE

\* for x in s: st = Op (st, x)
FoldSeq(Op(_, _), st, s) ==
    LET f[i \in 0..Len(s)] == IF i = 0 THEN st ELSE Bind(f[i - 1], LAMBDA acc : Op(acc, s[i]))
    IN  f[Len(s)]

\* ancestor-or-self::file/@path
get_filename(subj) == subj.file

\* a text fmt % args that holds no line break: one line
Format(fmt, args) == <<[fmt |-> fmt, args |-> args]>>

\* a text taken from the tree as it is: text.splitlines ()
Raw(t) == LET ls == SplitLines(t) IN [i \in 1..Len(ls) |-> [fmt |-> "%s", args |-> <<ls[i]>>]]

append(st, subj, lines) ==
    IF st.exc # "" THEN st
    ELSE LET sourceline == get_lineno(subj.node)
         IN  [st EXCEPT !.content = @ \o
                 [i \in 1..Len(lines) |->
                     [indent |-> subj.indent, fmt |-> lines[i].fmt, args |-> lines[i].args,
                      source |-> <<get_filename(subj), sourceline + (i - 1)>>]]]

BlankLine == [indent |-> 0, fmt |-> "", args |-> <<>>, source |-> <<>>]

nl(st) == IF st.exc # "" THEN st ELSE [st EXCEPT !.content = Append(@, BlankLine)]

\* the mutant of append_ns: the namespace is never registered
append_ns_NoAdd(st, subj) ==
    LET ns == get_namespace(subj.node)
    IN  Bind(append(st, subj, Format(".. php:namespace:: %s", <<ns>>)), LAMBDA s1 :
        Bind(IF ns \in s1.seen THEN append(s1, subj, Format("   :noindex:", <<>>)) ELSE s1,
             LAMBDA s2 : nl(s2)))

append_ns(st, subj) ==
    LET ns == get_namespace(subj.node)
    IN  Bind(append(st, subj, Format(".. php:namespace:: %s", <<ns>>)), LAMBDA s1 :
        Bind(IF ns \in s1.seen
             THEN append(s1, subj, Format("   :noindex:", <<>>))
             ELSE IF s1.exc # "" THEN s1 ELSE [s1 EXCEPT !.seen = @ \cup {ns}],
             LAMBDA s2 : nl(s2)))

S_http == <<"h", "t", "t", "p">>

PHPSee_run(st, subj, d) ==
    IF st.exc # "" THEN st
    ELSE IF Attr(subj.node, "description") = None THEN Raise(st, "TypeError")
    ELSE IF Attr(subj.node, "link") = None THEN Raise(st, "AttributeError")
    ELSE LET desc == trim(Attr(subj.node, "description"))
             link == Attr(subj.node, "link")
         IN  Bind(IF StartsWith(link, S_http)
                  THEN append(st, subj, Format("See: %s %s", <<link, desc>>))
                  ELSE append(st, subj, Format("See: %s %s", <<xref(d, link), desc>>)),
                  LAMBDA s1 : nl(s1))

append_desc(st, subj, d) ==
    Bind(append(st, subj, Raw(get_description(subj.node))), LAMBDA s1 :
    Bind(nl(s1), LAMBDA s2 :
    Bind(append(s2, subj, Raw(get_long_description(subj.node))), LAMBDA s3 :
    Bind(nl(s3), LAMBDA s4 :
    FoldSeq(LAMBDA s, node :
                Bind(PHPSee_run(s, Subject(node, subj.indent, subj.file), d), LAMBDA s5 : nl(s5)),
            s4, xpath_tags(subj.node, "see"))))))

RECURSIVE Repeat(_, _)
Repeat(c, n) == IF n = 0 THEN <<>> ELSE <<c>> \o Repeat(c, n - 1)

underscore(st, subj, t, char) ==
    Bind(append(st, subj, Raw(t)), LAMBDA s1 :
    Bind(append(s1, subj, Raw(Repeat(char, Len(t)))), LAMBDA s2 :
    nl(s2)))

PHPArgument_run(st, subj, d) ==
    IF st.exc # "" THEN st
    ELSE IF \/ Attr(subj.node, "variable") = None
            \/ Attr(subj.node, "type") = None
            \/ Attr(subj.node, "description") = None
         THEN Raise(st, "TypeError")
    ELSE LET name  == trim(Attr(subj.node, "variable"))
             type_ == trim(Attr(subj.node, "type"))
             desc  == trim(Attr(subj.node, "description"))
         IN  append(st, subj, Format(":param %s %s: %s", <<bs(type_), name, desc>>))

PHPReturn_run(st, subj, d) ==
    IF st.exc # "" THEN st
    ELSE IF Attr(subj.node, "type") = None \/ Attr(subj.node, "description") = None
         THEN Raise(st, "TypeError")
    ELSE LET type_ == trim(Attr(subj.node, "type"))
             desc  == trim(Attr(subj.node, "description"))
         IN  Bind(IF desc # <<>> THEN append(st, subj, Format(":returns: %s", <<desc>>)) ELSE st,
                  LAMBDA s1 :
                  IF type_ # <<>>
                  THEN append(s1, subj, Format(":rtype: %s", <<xref(d, type_)>>))
                  ELSE s1)

PHPThrows_run(st, subj, d) ==
    IF st.exc # "" THEN st
    ELSE IF Attr(subj.node, "type") = None THEN Raise(st, "TypeError")
    ELSE LET type_ == trim(Attr(subj.node, "type"))
             desc  == trim(IF Attr(subj.node, "description") \in {None, <<>>}
                           THEN <<>> ELSE Attr(subj.node, "description"))
         IN  append(st, subj, Format(":raises %s: %s", <<xref(d, type_), desc>>))

(***************************************************************************)
(* The renderers of the entities                                           *)
(***************************************************************************)

\* for node in nodes: Op (node, self.indent, self.directive).run (content)
RunAll(Op(_, _, _), st, nodes, subj, d) ==
    FoldSeq(LAMBDA s, node : Op(s, Subject(node, subj.indent, subj.file), d), st, nodes)

PHPVariable_run(st, subj, d) ==
    LET type_ == get_type(subj.node)
    IN  Bind(IF type_ # <<>> THEN append(st, subj, Format("(%s)", <<xref(d, type_)>>)) ELSE st,
             LAMBDA s1 : append_desc(s1, subj, d))

PHPConstant_run(st, subj, d) ==
    Bind(append_ns(st, subj), LAMBDA s1 :
    Bind(append(s1, subj, Format(".. php:const:: %s", <<get_name(subj.node)>>)), LAMBDA s2 :
    Bind(nl(s2), LAMBDA s3 :
    Bind(append(s3, Indented(subj), Raw(get_value(subj.node))), LAMBDA s4 :
    Bind(nl(s4), LAMBDA s5 :
    PHPVariable_run(s5, Indented(subj), d))))))

PHPProperty_run(st, subj, d) ==
    Bind(append(st, subj, Format(".. php:attr:: %s", <<get_name(subj.node)>>)), LAMBDA s1 :
    Bind(nl(s1), LAMBDA s2 :
    PHPVariable_run(s2, Indented(subj), d)))

\* "%s (%s)" % (self.get_name (), ', '.join (args)), args the argument/name texts
get_signature(node) ==
    LET named == SelectSeq(xpath(node, "argument"), LAMBDA a : "name" \in DOMAIN a.elems)
        args  == [i \in 1..Len(named) |-> named[i].elems["name"]]
    IN  get_name(node) \o <<" ", "(">> \o JoinComma(args) \o <<")">>

\* the mutant of PHPCallable.run: the throws tags are rendered before the param tags
PHPCallable_run_ThrowsFirst(st, subj, d) ==
    Bind(append_desc(st, Indented(subj), d), LAMBDA s1 :
    Bind(RunAll(PHPThrows_run,   s1, xpath_tags(subj.node, "throws"), Indented(subj), d), LAMBDA s2 :
    Bind(RunAll(PHPArgument_run, s2, xpath_tags(subj.node, "param"),  Indented(subj), d), LAMBDA s3 :
    Bind(RunAll(PHPReturn_run,   s3, xpath_tags(subj.node, "return"), Indented(subj), d), LAMBDA s4 :
    nl(s4)))))

PHPCallable_run(st, subj, d) ==
    Bind(append_desc(st, Indented(subj), d), LAMBDA s1 :
    Bind(RunAll(PHPArgument_run, s1, xpath_tags(subj.node, "param"),  Indented(subj), d), LAMBDA s2 :
    Bind(RunAll(PHPReturn_run,   s2, xpath_tags(subj.node, "return"), Indented(subj), d), LAMBDA s3 :
    Bind(RunAll(PHPThrows_run,   s3, xpath_tags(subj.node, "throws"), Indented(subj), d), LAMBDA s4 :
    nl(s4)))))

PHPFunction_run(st, subj, d) ==
    Bind(append_ns(st, subj), LAMBDA s1 :
    Bind(append(s1, subj, Format(".. php:function:: %s", <<get_signature(subj.node)>>)), LAMBDA s2 :
    Bind(nl(s2), LAMBDA s3 :
    PHPCallable_run(s3, subj, d))))

PHPMethod_run(st, subj, d) ==
    Bind(append(st, subj, Format(".. php:method:: %s", <<get_signature(subj.node)>>)), LAMBDA s1 :
    Bind(nl(s1), LAMBDA s2 :
    PHPCallable_run(s2, subj, d)))

PHPClass_run(st, subj, d) ==
    Bind(append_ns(st, subj), LAMBDA s1 :
    Bind(append(s1, subj, Format(".. php:class:: %s", <<get_name(subj.node)>>)), LAMBDA s2 :
    Bind(nl(s2), LAMBDA s3 :
    Bind(append_desc(s3, Indented(subj), d), LAMBDA s4 :
    Bind(RunAll(PHPProperty_run, s4, xpath(subj.node, "property"), Indented(subj), d), LAMBDA s5 :
    Bind(RunAll(PHPMethod_run,   s5, xpath(subj.node, "method"),   Indented(subj), d), LAMBDA s6 :
    nl(s6)))))))

(***************************************************************************)
(* Python values of the options and of the configuration:                  *)
(* [type, val] with type "None", "bool", "str" or "list"                   *)
(***************************************************************************)

PyNone      == [type |-> "None", val |-> <<>>]
PyBool(b)   == [type |-> "bool", val |-> b]
PyStr(s)    == [type |-> "str",  val |-> s]
PyList(l)   == [type |-> "list", val |-> l]

\* bool (v)
Truthy(v) == IF v.type = "None" THEN FALSE
             ELSE IF v.type = "bool" THEN v.val
             ELSE v.val # <<>>

\* v is True
IsTrue(v) == v.type = "bool" /\ v.val

\* arg.split (',')
RECURSIVE SplitComma(_)
SplitComma(s) ==
    IF ~HasChar(s, ",") THEN <<s>>
    ELSE LET i == CHOOSE i \in 1..Len(s) : s[i] = "," /\ \A j \in 1..(i - 1) : s[j] # ","
         IN  <<SubSeq(s, 1, i - 1)>> \o SplitComma(SubSeq(s, i + 1, Len(s)))

members_option(arg) ==
    IF arg.type = "None" \/ IsTrue(arg) THEN PyBool(TRUE)
    ELSE IF arg.type = "bool" THEN PyBool(FALSE)
    ELSE LET xs == SplitComma(arg.val) IN PyList([i \in 1..Len(xs) |-> Strip(xs[i])])

bool_option(arg) == PyBool(TRUE)

\* docutils' directives.unchanged: the argument, or '' when there is none
unchanged(arg) == IF arg.type = "None" THEN PyStr(<<>>) ELSE arg

\* option_spec applied to the options written in the directive
option_spec(raw) ==
    [name \in DOMAIN raw |->
        IF name = "structure_xml" THEN unchanged(raw[name])
        ELSE IF name = "members" THEN members_option(raw[name])
        ELSE bool_option(raw[name])]

\* getattr (self.env.config, 'autophpdoc_' + name)
ConfigValue(cfg, name) ==
    IF name = "structure_xml" THEN PyStr(cfg.structure_xml)
    ELSE IF name = "members" THEN PyBool(cfg.members)
    ELSE PyBool(cfg.title)

\* the value of get_opt: [val, exc], exc being "AutoPHPDocError" when it raises
get_opt(d, name, required) ==
    LET own == IF name \in DOMAIN d.options THEN d.options[name] ELSE PyNone
        opt == IF Truthy(own) THEN own ELSE ConfigValue(d.config, name)
    IN  IF required /\ ~Truthy(opt)
        THEN [val |-> opt, exc |-> "AutoPHPDocError"]
        ELSE [val |-> opt, exc |-> ""]

(***************************************************************************)
(* PHPModule                                                               *)
(***************************************************************************)

\* os.path.splitext (p)[0]: the extension starts at the last dot of the last
\* path component, leading dots of the component not counted
splitext_root(p) ==
    LET sep == Last({i \in 1..Len(p) : p[i] = "/"})
        dot == Last({i \in 1..Len(p) : p[i] = "." /\ i > sep})
    IN  IF dot > 0 /\ \E k \in (sep + 1)..(dot - 1) : p[k] # "."
        THEN SubSeq(p, 1, dot - 1)
        ELSE p

\* str.replace ('/', '.')
replace_slash(p) == [i \in 1..Len(p) |-> IF p[i] = "/" THEN "." ELSE p[i]]

PHPModule_get_name(node) == xpath_str_attr(node, "path", <<>>)

\* self.directive.get_opt ('members') is True
members_enabled(d) == IsTrue(get_opt(d, "members", FALSE).val)

\* the three loops over the constant, function and class children
PHPModule_members(st, subj, d) ==
    Bind(RunAll(PHPConstant_run, st, xpath(subj.node, "constant"), subj, d), LAMBDA s1 :
    Bind(RunAll(PHPFunction_run, s1, xpath(subj.node, "function"), subj, d), LAMBDA s2 :
    RunAll(PHPClass_run, s2, xpath(subj.node, "class"), subj, d)))

PHPModule_run(st, subj, d) ==
    LET filename == PHPModule_get_name(subj.node)
        module   == replace_slash(splitext_root(filename))
    IN  Bind(append(st, subj, Format(".. module:: %s", <<module>>)), LAMBDA s1 :
        Bind(nl(s1), LAMBDA s2 :
        Bind(IF Truthy(get_opt(d, "title", FALSE).val)
             THEN Bind(underscore(s2, subj, PHPModule_get_name(subj.node), "-"), LAMBDA s : nl(s))
             ELSE s2, LAMBDA s3 :
        Bind(append_desc(s3, subj, d), LAMBDA s4 :
        Bind(IF members_enabled(d) THEN PHPModule_members(s4, subj, d) ELSE s4, LAMBDA s5 :
        nl(s5))))))

(***************************************************************************)
(* The selection of the files: re:test, sorted                             *)
(***************************************************************************)

\* Does the regular expression re, from position i, match s at position j?
\* The elements are a literal character, an escaped character, the dot, each
\* possibly starred, and a final dollar.
RECURSIVE MatchHere(_, _, _, _)
MatchHere(re, i, s, j) ==
    IF i > Len(re) THEN TRUE
    ELSE IF re[i] = "$" /\ i = Len(re) THEN j = Len(s) + 1
    ELSE LET esc   == re[i] = "\\" /\ i < Len(re)
             w     == IF esc THEN 2 ELSE 1
             c     == IF esc THEN re[i + 1] ELSE re[i]
             Ok(k) == k <= Len(s) /\ (IF ~esc /\ c = "." THEN s[k] # "\n" ELSE s[k] = c)
         IN  IF i + w <= Len(re) /\ re[i + w] = "*"
             THEN \E k \in j..(Len(s) + 1) :
                     (\A m \in j..(k - 1) : Ok(m)) /\ MatchHere(re, i + w + 1, s, k)
             ELSE Ok(j) /\ MatchHere(re, i + w, s, j + 1)

\* re:test (s, re): the expression is searched for in s
re_test(s, re) ==
    IF re # <<>> /\ re[1] = "^"
    THEN MatchHere(re, 2, s, 1)
    ELSE \E j \in 1..(Len(s) + 1) : MatchHere(re, 1, s, j)

\* the characters of the paths in the order of their code points
CodePoints == <<"$", "'", "(", ")", "*", ".", "/", "G", "\\", "^",
                "a", "b", "c", "e", "h", "i", "l", "p", "r", "s", "t">>

Ord(c) == CHOOSE i \in 1..Len(CodePoints) : CodePoints[i] = c

RECURSIVE LexLess(_, _)
LexLess(a, b) ==
    IF a = <<>> THEN b # <<>>
    ELSE IF b = <<>> THEN FALSE
    ELSE IF a[1] = b[1] THEN LexLess(Tail(a), Tail(b))
    ELSE Ord(a[1]) < Ord(b[1])

\* sorted (S) for a set of strings
RECURSIVE sorted(_)
sorted(S) ==
    IF S = {} THEN <<>>
    ELSE LET m == CHOOSE x \in S : \A y \in S \ {x} : LexLess(x, y)
         IN  <<m>> \o sorted(S \ {m})

(***************************************************************************)
(* The files etree.parse can be given                                      *)
(***************************************************************************)

Element(tag, attrib, elems, docblock, kids) ==
    [tag |-> tag, attrib |-> attrib, elems |-> elems, docblock |-> docblock,
     children |-> kids]

Docblock(attrib, elems, tags) == <<[attrib |-> attrib, elems |-> elems, tags |-> tags]>>

TagElement(attrib) == Element("tag", attrib, <<>>, <<>>, <<>>)

S_src_Greeter_php == <<"s", "r", "c", "/", "G", "r", "e", "e", "t", "e", "r", ".", "p", "h", "p">>
S_src_a_php       == <<"s", "r", "c", "/", "a", ".", "p", "h", "p">>
S_src_b_php       == <<"s", "r", "c", "/", "b", ".", "p", "h", "p">>
S_lib_c_php       == <<"l", "i", "b", "/", "c", ".", "p", "h", "p">>
S_App_Models      == <<"A", "p", "p", "\\", "M", "o", "d", "e", "l", "s">>
S_App_Util        == <<"A", "p", "p", "\\", "U", "t", "i", "l">>
S_User            == <<"\\", "A", "p", "p", "\\", "M", "o", "d", "e", "l", "s", "\\", "U", "s", "e", "r">>
S_string          == <<"s", "t", "r", "i", "n", "g">>
S_int             == <<"i", "n", "t">>

\* src/Greeter.php: a function without a namespace attribute, documented with a
\* description, a param tag and a return tag
File_Greeter ==
    Element("file", [path |-> S_src_Greeter_php], <<>>, <<>>, <<
        Element("function", [line |-> <<"5">>],
            [name |-> <<"g", "r", "e", "e", "t">>, full_name |-> <<"g", "r", "e", "e", "t">>],
            Docblock([line |-> <<"2">>], [description |-> <<"S", "a", "y", "s", " ", "h", "e", "l", "l", "o">>], <<
                TagElement([name |-> "param", line |-> <<"3">>, type |-> S_string,
                            variable |-> <<"$", "n", "a", "m", "e">>, description |-> <<"t", "h", "e", " ", "n", "a", "m", "e">>]),
                TagElement([name |-> "return", line |-> <<"4">>, type |-> S_string,
                            description |-> <<"a", " ", "g", "r", "e", "e", "t", "i", "n", "g">>])>>),
            <<>>)>>)

\* src/a.php: a constant, a function and a class of the namespace App\Models
File_a ==
    Element("file", [path |-> S_src_a_php], <<>>,
        Docblock([line |-> <<"1">>], [description |-> <<"M", "o", "d", "e", "l", "s">>], <<>>), <<
        Element("constant", [namespace |-> S_App_Models, line |-> <<"3">>],
            [name |-> <<"L", "I", "M", "I", "T">>, full_name |-> <<"\\", "A", "p", "p", "\\", "M", "o", "d", "e", "l", "s", "\\", "L", "I", "M", "I", "T">>, value |-> <<"1", "0">>],
            Docblock([line |-> <<"2">>], [description |-> <<"R", "o", "w", " ", "l", "i", "m", "i", "t">>], <<
                TagElement([name |-> "var", type |-> S_int])>>),
            <<>>),
        Element("function", [namespace |-> S_App_Models, line |-> <<"9">>],
            [name |-> <<"f", "i", "n", "d">>, full_name |-> <<"\\", "A", "p", "p", "\\", "M", "o", "d", "e", "l", "s", "\\", "f", "i", "n", "d", "(", ")">>],
            Docblock([line |-> <<"5">>], [description |-> <<"F", "i", "n", "d", "s", " ", "a", " ", "u", "s", "e", "r">>], <<
                TagElement([name |-> "param", line |-> <<"6">>, type |-> S_int,
                            variable |-> <<"$", "i", "d">>, description |-> <<"<", "p", ">", "t", "h", "e", " ", " ", "i", "d", "<", "/", "p", ">">>]),
                TagElement([name |-> "throws", line |-> <<"7">>, type |-> <<"\\", "A", "p", "p", "\\", "M", "o", "d", "e", "l", "s", "\\", "N", "o", "t", "F", "o", "u", "n", "d">>]),
                TagElement([name |-> "see", line |-> <<"8">>, link |-> S_User,
                            description |-> <<"t", "h", "e", " ", "m", "o", "d", "e", "l">>])>>),
            <<Element("argument", <<>>, [name |-> <<"$", "i", "d">>], <<>>, <<>>)>>),
        Element("class", [namespace |-> S_App_Models, line |-> <<"2", "0">>],
            [name |-> <<"U", "s", "e", "r">>, full_name |-> S_User],
            Docblock([line |-> <<"1", "9">>], [description |-> <<"A", " ", "u", "s", "e", "r">>], <<>>), <<
            Element("property", [line |-> <<"2", "2">>],
                [name |-> <<"$", "i", "d">>, full_name |-> <<"\\", "A", "p", "p", "\\", "M", "o", "d", "e", "l", "s", "\\", "U", "s", "e", "r", ":", ":", "$", "i", "d">>],
                Docblock([line |-> <<"2", "1">>], <<>>, <<TagElement([name |-> "var", type |-> S_int])>>),
                <<>>),
            Element("method", [line |-> <<"2", "5">>],
                [name |-> <<"s", "a", "v", "e">>, full_name |-> <<"\\", "A", "p", "p", "\\", "M", "o", "d", "e", "l", "s", "\\", "U", "s", "e", "r", ":", ":", "s", "a", "v", "e", "(", ")">>],
                Docblock([line |-> <<"2", "3">>], [description |-> <<"S", "a", "v", "e", "s">>], <<
                    TagElement([name |-> "return", line |-> <<"2", "4">>, type |-> S_User,
                                description |-> <<>>])>>),
                <<>>)>>)>>)

\* src/b.php: a function of the namespace App\Util
File_b ==
    Element("file", [path |-> S_src_b_php], <<>>, <<>>, <<
        Element("function", [namespace |-> S_App_Util],
            [name |-> <<"l", "o", "a", "d">>, full_name |-> <<"\\", "A", "p", "p", "\\", "U", "t", "i", "l", "\\", "l", "o", "a", "d", "(", ")">>],
            Docblock([line |-> <<"7">>], [description |-> <<"L", "o", "a", "d", "s">>], <<
                TagElement([name |-> "param", type |-> S_string, variable |-> <<"$", "f", "i", "l", "e">>,
                            description |-> <<"t", "h", "e", " ", "f", "i", "l", "e">>])>>),
            <<>>)>>)

\* lib/c.php: a function of the namespace App\Util whose param tag has no description
File_c ==
    Element("file", [path |-> S_lib_c_php], <<>>, <<>>, <<
        Element("function", [namespace |-> S_App_Util, line |-> <<"4">>],
            [name |-> <<"p", "a", "r", "s", "e">>, full_name |-> <<"\\", "A", "p", "p", "\\", "U", "t", "i", "l", "\\", "p", "a", "r", "s", "e", "(", ")">>],
            Docblock([line |-> <<"2">>], [description |-> <<"P", "a", "r", "s", "e", "s">>], <<
                TagElement([name |-> "param", line |-> <<"3">>, type |-> S_string,
                            variable |-> <<"$", "t", "e", "x", "t">>])>>),
            <<>>)>>)

S_structure_xml == <<"s", "t", "r", "u", "c", "t", "u", "r", "e", ".", "x", "m", "l">>
S_broken_xml    == <<"b", "r", "o", "k", "e", "n", ".", "x", "m", "l">>

\* etree.parse (path): the tree of structure.xml; broken.xml is not well-formed
\* (XMLSyntaxError, an LxmlError); any other path, '' too, names no file (OSError)
etree_parse(path) ==
    IF path = S_structure_xml THEN [exc |-> "", tree |-> <<File_c, File_b, File_Greeter, File_a>>]
    ELSE IF path = S_broken_xml THEN [exc |-> "LxmlError", tree |-> <<>>]
    ELSE [exc |-> "OSError", tree |-> <<>>]

(***************************************************************************)
(* AutoDirective.run                                                       *)
(***************************************************************************)

S_php_auto == <<"p", "h", "p", ":", "a", "u", "t", "o">>
S_module   == <<"m", "o", "d", "u", "l", "e">>
S_class    == <<"c", "l", "a", "s", "s">>
S_method   == <<"m", "e", "t", "h", "o", "d">>
S_function == <<"f", "u", "n", "c", "t", "i", "o", "n">>

\* RE_AUTOSTRIP.sub ('', name): the prefix php:auto removed
RE_AUTOSTRIP_sub(name) ==
    IF StartsWith(name, S_php_auto) THEN SubSeq(name, Len(S_php_auto) + 1, Len(name)) ELSE name

RECURSIVE AllElements(_)
AllElements(nodes) ==
    IF nodes = <<>> THEN {}
    ELSE {nodes[1]} \cup AllElements(nodes[1].children) \cup AllElements(Tail(nodes))

\* set (tree.xpath ('//<tag>/full_name/text ()'))
full_names(tree, tag) ==
    {n.elems["full_name"] :
        n \in {m \in AllElements(tree) : m.tag = tag /\ "full_name" \in DOMAIN m.elems}}

\* for k in list (names): names.add (strip_braces (k))
with_stripped(names) == names \cup {strip_braces(k) : k \in names}

\* the directive with its name index
NameIndex(self, tree) ==
    [options    |-> self.options,
     config     |-> self.config,
     functions  |-> with_stripped(full_names(tree, "function")),
     classes    |-> full_names(tree, "class"),
     methods    |-> with_stripped(full_names(tree, "method")),
     properties |-> full_names(tree, "property")]

\* the mutant of the visited test: no path is ever skipped
Skip_Never(path, seenpaths) == FALSE

\* if path in visited: continue
Skip(path, seenpaths) == \E i \in 1..Len(seenpaths) : seenpaths[i] = path

Dispatch(st, node, objtype, d) ==
    LET subj == Subject(node, 0, xpath_str_attr(node, "path", <<>>))
    IN  Bind(IF objtype = S_module   THEN PHPModule_run(st, subj, d)   ELSE st, LAMBDA s1 :
        Bind(IF objtype = S_class    THEN PHPClass_run(s1, subj, d)    ELSE s1, LAMBDA s2 :
        Bind(IF objtype = S_method   THEN PHPMethod_run(s2, subj, d)   ELSE s2, LAMBDA s3 :
        IF objtype = S_function THEN PHPFunction_run(s3, subj, d) ELSE s3)))

\* the body of "for path in sorted (filenodes.keys ())"; acc is [st, visited]
RenderPath(acc, path, filenodes, objtype, d) ==
    IF acc.st.exc # "" \/ Skip(path, acc.visited) THEN acc
    ELSE [st      |-> Dispatch(acc.st, filenodes[path], objtype, d),
          visited |-> Append(acc.visited, path)]

\* the body of "for argument in self.arguments".  The query is
\* "//file[re:test (@path, '%s')]" % argument: an argument that holds a quote
\* ends the string literal early and the query is no XPath expression
\* (XPathEvalError, an LxmlError).
RenderArgument(acc, argument, tree, objtype, d) ==
    IF acc.st.exc # "" THEN acc
    ELSE IF HasChar(argument, "'") THEN [acc EXCEPT !.st = Raise(@, "LxmlError")]
    ELSE LET matched   == SelectSeq(tree, LAMBDA f : f.tag = "file" /\ re_test(Attr(f, "path"), argument))
             paths     == {Attr(matched[i], "path") : i \in 1..Len(matched)}
             filenodes == [p \in paths |->
                             matched[Last({i \in 1..Len(matched) : Attr(matched[i], "path") = p})]]
         IN  FoldSeq(LAMBDA a, p : RenderPath(a, p, filenodes, objtype, d), acc, sorted(paths))

Result(c, seen, how, kids, didparse, paths) ==
    [content |-> c, seen |-> seen, outcome |-> how, children |-> kids,
     parsed |-> didparse, visited |-> paths]

\* AutoDirective.run for the directive self = [name, arguments, options, config] with the
\* registry seen.  outcome is "ok" when run returns what nested_parse_with_titles made of
\* content, "LxmlError" when the error is logged and run returns nothing, and otherwise
\* the exception that leaves run.
AutoDirective_run(self, seen) ==
    LET structure_xml == get_opt(self, "structure_xml", FALSE)
        objtype       == RE_AUTOSTRIP_sub(self.name)
    IN  IF structure_xml.exc # ""
        THEN Result(<<>>, seen, structure_xml.exc, <<>>, FALSE, <<>>)
        ELSE LET parse == etree_parse(structure_xml.val.val)
             IN  IF parse.exc # ""
                 THEN Result(<<>>, seen, parse.exc, <<>>, TRUE, <<>>)
                 ELSE Bind(NameIndex(self, parse.tree), LAMBDA d :
                      Bind(FoldSeq(LAMBDA a, arg : RenderArgument(a, arg, parse.tree, objtype, d),
                                   [st      |-> [content |-> <<>>, seen |-> seen, exc |-> ""],
                                    visited |-> <<>>],
                                   self.arguments), LAMBDA acc :
                      Result(acc.st.content, acc.st.seen,
                             IF acc.st.exc = "" THEN "ok" ELSE acc.st.exc,
                             IF acc.st.exc = "" THEN acc.st.content ELSE <<>>,
                             TRUE, acc.visited)))

(***************************************************************************)
(* What the content says about the namespaces                              *)
(***************************************************************************)

IsNsLine(l) == l.fmt = ".. php:namespace:: %s"

\* the namespace declarations of a content, in order: [ns, noindex]
NsDecls(c) ==
    LET at == SelectSeq([i \in 1..Len(c) |-> i], LAMBDA i : IsNsLine(c[i]))
    IN  [k \in 1..Len(at) |->
            [ns      |-> c[at[k]].args[1],
             noindex |-> at[k] < Len(c) /\ c[at[k] + 1].fmt = "   :noindex:"]]

Declared(c) == {c[i].args[1] : i \in {j \in 1..Len(c) : IsNsLine(c[j])}}

Unmarked(c) ==
    {c[i].args[1] : i \in {j \in 1..Len(c) :
        IsNsLine(c[j]) /\ ~(j < Len(c) /\ c[j + 1].fmt = "   :noindex:")}}

(***************************************************************************)
(* The build: the directives of the documents, one after the other         *)
(***************************************************************************)

MaxArgs == 2

P_a     == <<"^", "s", "r", "c", "/", "a", "\\", ".", "p", "h", "p", "$">>
P_all   == <<"^", "s", "r", "c", "/", ".", "*", "\\", ".", "p", "h", "p", "$">>
P_G     == <<"G", "r", "e", "e", "t", "e", "r">>
P_quote == <<"'">>
P_c     == <<"c", "\\", ".", "p", "h", "p", "$">>

Patterns == {P_a, P_all, P_quote}

\* the lists of up to MaxArgs different patterns
ArgumentLists ==
    UNION {{l \in [1..n -> Patterns] : \A i, j \in 1..n : i # j => l[i] # l[j]} : n \in 1..MaxArgs}

S_automodule   == <<"p", "h", "p", ":", "a", "u", "t", "o", "m", "o", "d", "u", "l", "e">>
S_autoclass    == <<"p", "h", "p", ":", "a", "u", "t", "o", "c", "l", "a", "s", "s">>
S_autofunction == <<"p", "h", "p", ":", "a", "u", "t", "o", "f", "u", "n", "c", "t", "i", "o", "n">>

\* the options as written in the directive: no argument is None
RawOptions ==
    {[members |-> PyNone],
     [members |-> PyStr(<<"g", "r", "e", "e", "t", ",", " ", "h", "e", "l", "p", "e", "r">>)],
     [title |-> PyNone],
     [structure_xml |-> PyStr(S_structure_xml)],
     [structure_xml |-> PyStr(S_broken_xml), members |-> PyNone]}

\* the directives of the documents: php:automodule with every list of patterns,
\* the other two directives and the options with some
Directives ==
    {[name |-> S_automodule, arguments |-> l, raw |-> <<>>] : l \in ArgumentLists}
    \cup {[name |-> n, arguments |-> l, raw |-> <<>>] :
             n \in {S_autoclass, S_autofunction}, l \in {<<P_all>>, <<P_a, P_quote>>}}
    \cup {[name |-> S_automodule, arguments |-> l, raw |-> <<>>] : l \in {<<P_c>>, <<P_all, P_c>>}}
    \cup {[name |-> S_automodule, arguments |-> <<P_G>>, raw |-> o] : o \in RawOptions}

\* conf.py: setup () gives the defaults '', False, False
Configs ==
    {[structure_xml |-> <<>>, members |-> FALSE, title |-> FALSE],
     [structure_xml |-> S_structure_xml, members |-> TRUE, title |-> FALSE]}

NoText == [x |-> <<>>, calls |-> 0, prev |-> <<>>, out |-> <<>>]
NoRef  == [link |-> <<>>, index |-> <<>>, markup |-> <<>>, called |-> FALSE]
NoPar  == <<>>
NoDirective == [name |-> <<>>, arguments |-> <<>>, options |-> <<>>, config |-> <<>>]

\* the configuration that setup () registers
DefaultConfig == [structure_xml |-> <<>>, members |-> FALSE, title |-> FALSE]

\* no directive has run
NoBuild ==
    /\ config = DefaultConfig
    /\ seen_before = {}
    /\ called_before = {}
    /\ handed = {}
    /\ directive = NoDirective
    /\ content = <<>>
    /\ children = <<>>
    /\ outcome = "none"
    /\ parsed = FALSE
    /\ visited = <<>>

Init ==
    /\ config \in Configs
    /\ seen_namespaces = {}
    /\ seen_before = {}
    /\ called_before = {}
    /\ handed = {}
    /\ directive = NoDirective
    /\ content = <<>>
    /\ children = <<>>
    /\ outcome = "none"
    /\ parsed = FALSE
    /\ visited = <<>>
    /\ text = NoText
    /\ ref = NoRef
    /\ par = NoPar

\* One directive of the build is run.  An exception that leaves run ends the build.
Invoke(name, arguments, raw) ==
    /\ outcome \in {"none", "ok", "LxmlError"}
    /\ \E self \in {[name |-> name, arguments |-> arguments,
                     options |-> option_spec(raw), config |-> config]} :
       \E r \in {AutoDirective_run(self, seen_namespaces)} :
           /\ directive' = self
           /\ seen_before' = seen_namespaces
           /\ called_before' = called_before \cup Declared(content)
           /\ seen_namespaces' = r.seen
           /\ content' = r.content
           /\ children' = r.children
           /\ outcome' = r.outcome
           /\ parsed' = r.parsed
           /\ visited' = r.visited
           /\ handed' = handed \cup Unmarked(r.children)
    /\ UNCHANGED <<config, text, ref, par>>

Next == \E dir \in Directives : Invoke(dir.name, dir.arguments, dir.raw)

Spec == Init /\ [][Next]_vars

(***************************************************************************)
(* The build: what the directives keep true                                *)
(***************************************************************************)

\* the tree the last directive has read, when it has read one
Tree == etree_parse(get_opt(directive, "structure_xml", FALSE).val.val)

Paths == {Attr(Tree.tree[i], "path") : i \in 1..Len(Tree.tree)}

\* the first pattern of the directive that matches the path, 0 when none does
FirstMatch(path) ==
    LET hits == {i \in 1..Len(directive.arguments) : re_test(path, directive.arguments[i])}
    IN  IF hits = {} THEN 0 ELSE CHOOSE i \in hits : \A j \in hits : i <= j

\* p is rendered before q: an earlier first pattern, or the same and the lesser path
Before(p, q) ==
    \/ FirstMatch(p) < FirstMatch(q)
    \/ FirstMatch(p) = FirstMatch(q) /\ LexLess(p, q)

\* the files are rendered once each, in the order of Before and without a gap
RenderedInOrder ==
    /\ \A i \in 1..Len(visited) : visited[i] \in Paths /\ FirstMatch(visited[i]) > 0
    /\ \A i, j \in 1..Len(visited) : i < j => Before(visited[i], visited[j])
    /\ \A i \in 1..Len(visited) : \A p \in Paths :
          (FirstMatch(p) > 0 /\ Before(p, visited[i])) => \E j \in 1..(i - 1) : visited[j] = p

RenderedAll == \A p \in Paths : FirstMatch(p) > 0 => \E i \in 1..Len(visited) : visited[i] = p

\* C1: in the content of every invocation a namespace declaration is followed by
\* :noindex: exactly when append_ns was called for that namespace before, in an
\* earlier invocation of the build or earlier in this one; so the first call
\* emits the declaration unmarked and every later call emits it marked.
C1_FirstUnmarkedLaterNoindex ==
    LET decls == NsDecls(content)
    IN  \A k \in 1..Len(decls) :
            decls[k].noindex <=>
                \/ decls[k].ns \in called_before
                \/ \E j \in 1..(k - 1) : decls[j].ns = decls[k].ns

\* C1 case: one content declares a namespace a second time, and declares one that
\* an earlier invocation had declared, after a first declaration that is unmarked
C1_Witness ==
    LET decls == NsDecls(content)
    IN  /\ \E k \in 1..Len(decls) : decls[k].noindex /\ decls[k].ns \in called_before
        /\ \E k \in 1..Len(decls) : \E j \in 1..(k - 1) :
              decls[j].ns = decls[k].ns /\ ~decls[j].noindex /\ decls[k].noindex

C9_SeenWereHanded ==
    outcome \in {"ok", "LxmlError"} => seen_namespaces \subseteq handed

\* C3 as stated: without a structure_xml option and without autophpdoc_structure_xml
\* run raises AutoPHPDocError, before etree.parse and with seen_namespaces as it was
C3_ConfigurationError ==
    (outcome # "none" /\ ~Truthy(get_opt(directive, "structure_xml", FALSE).val)) =>
        /\ outcome = "AutoPHPDocError"
        /\ ~parsed
        /\ seen_namespaces = seen_before

\* C4 as stated: no run ends in an error because a description, type, value or
\* namespace is absent from a tag or an entity
C4_AbsentFieldNoError ==
    outcome \notin {"TypeError", "AttributeError"}

\* C5 as stated: with a list of names as members the content is the content that
\* members = True gives
C5_AllowListAsTrue ==
    (outcome = "ok" /\ get_opt(directive, "members", FALSE).val.type = "list") =>
        content = AutoDirective_run([directive EXCEPT !.options = [members |-> PyBool(TRUE)]],
                                    seen_before).content

(***************************************************************************)
(* The order of the lines of a module                                      *)
(***************************************************************************)

IsDecl(l) == l.fmt \in {".. module:: %s", ".. php:namespace:: %s", ".. php:const:: %s",
                        ".. php:function:: %s", ".. php:class:: %s", ".. php:attr:: %s",
                        ".. php:method:: %s"}

\* the members of a module in the order of PHPModule.run
MemberRank(l) == IF l.fmt = ".. php:const:: %s" THEN 1
                 ELSE IF l.fmt = ".. php:function:: %s" THEN 2
                 ELSE IF l.fmt = ".. php:class:: %s" THEN 3
                 ELSE 0

\* the lines of a function or method in the order of PHPCallable.run
TagRank(l) == IF l.fmt \in {"%s", "See: %s %s"} THEN 1
              ELSE IF l.fmt = ":param %s %s: %s" THEN 2
              ELSE IF l.fmt \in {":returns: %s", ":rtype: %s"} THEN 3
              ELSE IF l.fmt = ":raises %s: %s" THEN 4
              ELSE 0

\* the declaration line that the line i belongs to, 0 when there is none
Owner(c, i) == Last({k \in 1..i : IsDecl(c[k])})

\* the last line before i that is neither blank nor :noindex:, 0 when there is none
Previous(c, i) == Last({k \in 1..(i - 1) : c[k].fmt \notin {"", "   :noindex:"}})

\* the lines of the modules of a content are in the order of PHPModule.run and
\* PHPFunction.run
LineOrder(c) ==
    /\ c # <<>> => c[1].fmt = ".. module:: %s"
    /\ \A i, j \in 1..Len(c) :
          (/\ i < j
           /\ MemberRank(c[i]) > 0
           /\ MemberRank(c[j]) > 0
           /\ \A k \in i..j : c[k].fmt # ".. module:: %s") => MemberRank(c[i]) <= MemberRank(c[j])
    /\ \A i \in 1..Len(c) :
          c[i].fmt = ".. php:function:: %s" =>
              Previous(c, i) > 0 /\ c[Previous(c, i)].fmt = ".. php:namespace:: %s"
    /\ \A i, j \in 1..Len(c) :
          (/\ i < j
           /\ TagRank(c[i]) > 0
           /\ TagRank(c[j]) > 0
           /\ Owner(c, i) > 0
           /\ Owner(c, i) = Owner(c, j)
           /\ c[Owner(c, i)].fmt \in {".. php:function:: %s", ".. php:method:: %s"})
              => TagRank(c[i]) <= TagRank(c[j])

Line(fmt, args) == [fmt |-> fmt, args |-> args]

\* the lines want[i..] are lines of c[j..], in their order
RECURSIVE Contains(_, _, _, _)
Contains(c, j, want, i) ==
    IF i > Len(want) THEN TRUE
    ELSE IF j > Len(c) THEN FALSE
    ELSE IF c[j].fmt = want[i].fmt /\ c[j].args = want[i].args
         THEN Contains(c, j + 1, want, i + 1)
         ELSE Contains(c, j + 1, want, i)

\* php:automodule with members = True
ModuleWithMembers ==
    /\ outcome = "ok"
    /\ directive.name = S_automodule
    /\ IsTrue(get_opt(directive, "members", FALSE).val)

\* the scenario of src/Greeter.php: php:automodule with the pattern Greeter
GreeterScenario == ModuleWithMembers /\ directive.arguments = <<P_G>>

\* C8 (amended): the lines of a module with members = True are in a fixed order:
\* the module declaration, the description, the constants, the functions, the
\* classes; a function gives its namespace declaration, its declaration, then its
\* description, its param lines, its returns and rtype lines and its raises lines.
\* For src/Greeter.php the content holds, in this order, the module declaration of
\* src.Greeter, a blank line, the namespace declaration, the declaration greet (),
\* the description Says hello, the line of $name, the returns line and the rtype
\* line with string as a plain reference.
C8_LineOrder ==
    /\ ModuleWithMembers => LineOrder(content)
    /\ GreeterScenario =>
          Contains(content, 1,
                   <<Line(".. module:: %s", <<<<"s", "r", "c", ".", "G", "r", "e", "e", "t", "e", "r">>>>),
                     Line("", <<>>),
                     Line(".. php:namespace:: %s", <<<<>>>>),
                     Line(".. php:function:: %s", <<<<"g", "r", "e", "e", "t", " ", "(", ")">>>>),
                     Line("%s", <<<<"S", "a", "y", "s", " ", "h", "e", "l", "l", "o">>>>),
                     Line(":param %s %s: %s", <<S_string, <<"$", "n", "a", "m", "e">>, <<"t", "h", "e", " ", "n", "a", "m", "e">>>>),
                     Line(":returns: %s", <<<<"a", " ", "g", "r", "e", "e", "t", "i", "n", "g">>>>),
                     Line(":rtype: %s", <<S_string>>)>>, 1)

\* C8 case: the scenario of src/Greeter.php has been rendered to its last line
C8_Witness ==
    /\ GreeterScenario
    /\ \E i \in 1..Len(content) : content[i].fmt = ":rtype: %s"

\* C8 as stated: the same order of the lines, and for src/Greeter.php the
\* description Says hello between the module declaration and the namespace
\* declaration
C8_GreeterAsStated ==
    /\ ModuleWithMembers => LineOrder(content)
    /\ GreeterScenario =>
          Contains(content, 1,
                   <<Line(".. module:: %s", <<<<"s", "r", "c", ".", "G", "r", "e", "e", "t", "e", "r">>>>),
                     Line("", <<>>),
                     Line("%s", <<<<"S", "a", "y", "s", " ", "h", "e", "l", "l", "o">>>>),
                     Line("", <<>>),
                     Line(".. php:namespace:: %s", <<<<>>>>),
                     Line(".. php:function:: %s", <<<<"g", "r", "e", "e", "t", " ", "(", ")">>>>),
                     Line(":param %s %s: %s", <<S_string, <<"$", "n", "a", "m", "e">>, <<"t", "h", "e", " ", "n", "a", "m", "e">>>>),
                     Line(":returns: %s", <<<<"a", " ", "g", "r", "e", "e", "t", "i", "n", "g">>>>),
                     Line(":rtype: %s", <<S_string>>)>>, 1)

(***************************************************************************)
(* trim applied to a text, and to what it returns                          *)
(***************************************************************************)

MaxLen == 6

Alphabet == {"<", "/", "p", ">", " "}

Texts == UNION {[1..n -> Alphabet] : n \in 0..MaxLen}

InitTrim ==
    /\ NoBuild
    /\ seen_namespaces = {}
    /\ text \in {[x |-> t, calls |-> 0, prev |-> t, out |-> t] : t \in Texts}
    /\ ref = NoRef
    /\ par = NoPar

\* text = trim (text)
Trim ==
    /\ text.calls < 2
    /\ text' = [text EXCEPT !.calls = @ + 1, !.prev = text.out, !.out = trim(text.out)]
    /\ UNCHANGED <<config, seen_namespaces, seen_before, called_before, handed, directive,
                   content, children, outcome, parsed, visited, ref, par>>

NextTrim == Trim

SpecTrim == InitTrim /\ [][NextTrim]_vars

\* C7 as stated: trim (trim (x)) = trim (x) for every string x
C7_TrimIdempotent == text.calls = 2 => text.out = text.prev

(***************************************************************************)
(* xref applied to an identifier                                           *)
(***************************************************************************)

Identifiers == {<<"A">>, <<"\\", "A">>, <<"f">>}

\* the four sets of names that run gives the directive
Indexes == [classes : SUBSET Identifiers, functions : SUBSET Identifiers,
            methods : SUBSET Identifiers, properties : SUBSET Identifiers]

InitXref ==
    /\ NoBuild
    /\ seen_namespaces = {}
    /\ text = NoText
    /\ ref \in {[link |-> <<>>, index |-> d, markup |-> <<>>, called |-> FALSE] : d \in Indexes}
    /\ par = NoPar

Xref(link) ==
    /\ ~ref.called
    /\ ref' = [ref EXCEPT !.link = link, !.markup = xref(ref.index, link), !.called = TRUE]
    /\ UNCHANGED <<config, seen_namespaces, seen_before, called_before, handed, directive,
                   content, children, outcome, parsed, visited, text, par>>

NextXref == \E link \in Identifiers \cup {<<>>} : Xref(link)

SpecXref == InitXref /\ [][NextXref]_vars

\* C6: xref makes of the empty identifier the empty markup, of an identifier of
\* the class set a class reference (also when the function set holds it), else of
\* one of the function set a function reference, else of one of the method set a
\* method reference, else of one of the property set a property reference, and of
\* an identifier of no set the escaped identifier alone.
C6_Precedence ==
    ref.called =>
        LET l == ref.link
            d == ref.index
        IN  /\ l = <<>> => ref.markup = <<>>
            /\ (l # <<>> /\ l \in d.classes) => ref.markup = Role(S_php_class, bs(l))
            /\ (l # <<>> /\ l \in d.classes /\ l \in d.functions) =>
                   ref.markup # Role(S_php_func, bs(l))
            /\ (l # <<>> /\ l \notin d.classes /\ l \in d.functions) =>
                   ref.markup = Role(S_php_func, bs(l))
            /\ (l # <<>> /\ l \notin d.classes \cup d.functions /\ l \in d.methods) =>
                   ref.markup = Role(S_php_meth, bs(l))
            /\ (l # <<>> /\ l \notin d.classes \cup d.functions \cup d.methods
                         /\ l \in d.properties) =>
                   ref.markup = Role(S_php_attr, bs(l))
            /\ (l # <<>> /\ l \notin d.classes \cup d.functions \cup d.methods \cup d.properties) =>
                   ref.markup = bs(l)

\* C6 case: xref has been given an identifier of the class set and the function set
C6_Witness ==
    /\ ref.called
    /\ ref.link # <<>>
    /\ ref.link \in ref.index.classes \cap ref.index.functions

(***************************************************************************)
(* Two invocations that run append_ns at the same time                     *)
(***************************************************************************)

Workers == {1, 2}

\* the entities of the files, each rendered with append_ns first
Entities(file) == SelectSeq(file.children, LAMBDA n : n.tag \in {"constant", "function", "class"})

InitPar ==
    /\ NoBuild
    /\ seen_namespaces = {}
    /\ text = NoText
    /\ ref = NoRef
    /\ par \in [Workers -> {[pc |-> "call", file |-> Attr(f, "path"), todo |-> Entities(f),
                             content |-> <<>>] : f \in {File_a, File_b, File_c}}]

ParSubject(w) == Subject(Head(par[w].todo), 0, par[w].file)

ParState(w) == [content |-> par[w].content, seen |-> seen_namespaces, exc |-> ""]

ParUnchanged ==
    UNCHANGED <<config, seen_before, called_before, handed, directive, content, children,
                outcome, parsed, visited, text, ref>>

\* self.append (".. php:namespace:: %s" % ns, content)
ParDeclare(w) ==
    /\ par[w].pc = "call"
    /\ par[w].todo # <<>>
    /\ par' = [par EXCEPT ![w].pc = "test",
                          ![w].content = append(ParState(w), ParSubject(w),
                                                Format(".. php:namespace:: %s",
                                                       <<get_namespace(Head(par[w].todo))>>)).content]
    /\ UNCHANGED seen_namespaces
    /\ ParUnchanged

\* if ns in seen_namespaces
ParTest(w) ==
    /\ par[w].pc = "test"
    /\ par' = [par EXCEPT ![w].pc = IF get_namespace(Head(par[w].todo)) \in seen_namespaces
                                    THEN "noindex" ELSE "add"]
    /\ UNCHANGED seen_namespaces
    /\ ParUnchanged

\* self.append ("   :noindex:", content)
ParNoindex(w) ==
    /\ par[w].pc = "noindex"
    /\ par' = [par EXCEPT ![w].pc = "nl",
                          ![w].content = append(ParState(w), ParSubject(w),
                                                Format("   :noindex:", <<>>)).content]
    /\ UNCHANGED seen_namespaces
    /\ ParUnchanged

\* seen_namespaces.add (ns)
ParAdd(w) ==
    /\ par[w].pc = "add"
    /\ seen_namespaces' = seen_namespaces \cup {get_namespace(Head(par[w].todo))}
    /\ par' = [par EXCEPT ![w].pc = "nl"]
    /\ ParUnchanged

\* self.nl (content), and on to the next entity
ParNl(w) ==
    /\ par[w].pc = "nl"
    /\ par' = [par EXCEPT ![w].pc = "call",
                          ![w].todo = Tail(@),
                          ![w].content = nl(ParState(w)).content]
    /\ UNCHANGED seen_namespaces
    /\ ParUnchanged

NextPar ==
    \E w \in Workers :
        \/ ParDeclare(w)
        \/ ParTest(w)
        \/ ParNoindex(w)
        \/ ParAdd(w)
        \/ ParNl(w)

SpecPar == InitPar /\ [][NextPar]_vars

\* C10 as stated: when the two invocations have rendered their entities, whatever
\* the interleaving of the test and the insert, no namespace has more than one
\* declaration without :noindex: in the two contents together
C10_IndexedAtMostOnce ==
    (par # NoPar /\ \A w \in Workers : par[w].todo = <<>>) =>
        \A v, w \in Workers :
            \A i \in 1..Len(NsDecls(par[v].content)), j \in 1..Len(NsDecls(par[w].content)) :
                (/\ NsDecls(par[v].content)[i].ns = NsDecls(par[w].content)[j].ns
                 /\ ~NsDecls(par[v].content)[i].noindex
                 /\ ~NsDecls(par[w].content)[j].noindex) => (v = w /\ i = j)

====
